---- MODULE Spec2Model ----
(***************************************************************************)
(* A model of app.py: the Streamlit chat front end over the Gemini API.    *)
(*                                                                         *)
(* Text is a sequence of atoms.  An atom is either one of the characters   *)
(* JSON treats specially (the quote, the backslash, a non-ASCII letter) or *)
(* a run of ordinary characters, so that concatenation is \o and the JSON  *)
(* escaping of json.dump / json.load is modelled atom by atom.             *)
(*                                                                         *)
(* conversations.json is a sequence of tokens: the punctuation of JSON,    *)
(* the whitespace json.dump(indent=2) emits, and the atoms of the string   *)
(* literals.                                                               *)
(***************************************************************************)
EXTENDS Integers, Sequences, FiniteSets, TLC

\* ------------------------------------------------------------------------
\* Bounds of the model
\* ------------------------------------------------------------------------

\* prompts one session may submit
MaxCycles == 2

\* ------------------------------------------------------------------------
\* Program constants
\* ------------------------------------------------------------------------

\* "max_temperature": 1.0, in slider steps of 0.1
max_temperature == 10

\* "default_temperature": 0.7, in slider steps of 0.1
default_temperature == 7

MODELS ==
    [label \in {"Gemini 1.5 Pro", "Gemini 1.5 Flash", "Gemini 1.5 Flash 8B",
                "LearnLM 1.5 Pro (Experimental)"} |->
        [model_name |->
            CASE label = "Gemini 1.5 Pro" -> "gemini-1.5-pro"
              [] label = "Gemini 1.5 Flash" -> "gemini-1.5-flash"
              [] label = "Gemini 1.5 Flash 8B" -> "gemini-1.5-flash-8b"
              [] OTHER -> "learnlm-1.5-pro-experimental",
         max_temperature |-> max_temperature,
         default_temperature |-> default_temperature]]

\* options=list(MODELS.keys()), index=0
FirstModel == "Gemini 1.5 Pro"

\* ------------------------------------------------------------------------
\* Text
\* ------------------------------------------------------------------------

QUOTE == "\""

BACKSLASH == "\\"

\* a letter outside ASCII, which json.dump (ensure_ascii) writes as \u00e9
EACUTE == "U+00E9"

\* the newline and indentation json.dump(indent=2) puts between items
WS == "\n"

\* what At returns beyond the end of the file
EOF == ""

\* Python's None
None == "None"

Last(seq) == seq[Len(seq)]

IsPrefix(a, b) == Len(a) <= Len(b) /\ SubSeq(b, 1, Len(a)) = a

\* datetime.now().strftime('%Y-%m-%d %H:%M:%S') of a clock reading in seconds
strftime(now) ==
    <<"2024-01-01 00:00:", ToString((now % 60) \div 10), ToString(now % 10)>>

\* ------------------------------------------------------------------------
\* json.dump(conversations, f, indent=2)
\* A Python dict is a sequence of <<key, value>> pairs (dicts keep their
\* order); keys and values are texts.
\* ------------------------------------------------------------------------

EscapeAtom(c) ==
    IF c = QUOTE THEN <<BACKSLASH, QUOTE>>
    ELSE IF c = BACKSLASH THEN <<BACKSLASH, BACKSLASH>>
    ELSE IF c = EACUTE THEN <<BACKSLASH, "u00e9">>
    ELSE <<c>>

RECURSIVE EscapeText(_)
EscapeText(s) ==
    IF s = <<>> THEN <<>> ELSE EscapeAtom(Head(s)) \o EscapeText(Tail(s))

DumpString(s) == <<QUOTE>> \o EscapeText(s) \o <<QUOTE>>

RECURSIVE DumpPairs(_)
DumpPairs(d) ==
    IF d = <<>> THEN <<>>
    ELSE DumpString(d[1][1]) \o <<":">> \o DumpString(d[1][2])
         \o (IF Len(d) > 1 THEN <<",", WS>> \o DumpPairs(Tail(d)) ELSE <<>>)

DumpDict(d) ==
    IF d = <<>> THEN <<"{", "}">>
    ELSE <<"{", WS>> \o DumpPairs(d) \o <<WS, "}">>

RECURSIVE DumpItems(_)
DumpItems(l) ==
    IF l = <<>> THEN <<>>
    ELSE DumpDict(l[1])
         \o (IF Len(l) > 1 THEN <<",", WS>> \o DumpItems(Tail(l)) ELSE <<>>)

json_dump(l) ==
    IF l = <<>> THEN <<"[", "]">>
    ELSE <<"[", WS>> \o DumpItems(l) \o <<WS, "]">>

\* ------------------------------------------------------------------------
\* json.load(f): a parse result is [ok, value, next]; ok = FALSE is the
\* JSONDecodeError.
\* ------------------------------------------------------------------------

ParseError == [ok |-> FALSE, value |-> <<>>, next |-> 0]

At(t, i) == IF i \in 1..Len(t) THEN t[i] ELSE EOF

RECURSIVE SkipWs(_, _)
SkipWs(t, i) == IF At(t, i) = WS THEN SkipWs(t, i + 1) ELSE i

UnescapeAtom(c) ==
    IF c = "u00e9" THEN EACUTE ELSE c

RECURSIVE ParseChars(_, _, _)

\* one character c of a string literal, at i
ParseChar(t, i, acc, c) ==
    IF c = EOF \/ c = WS THEN ParseError
    ELSE IF c = QUOTE THEN [ok |-> TRUE, value |-> acc, next |-> i + 1]
    ELSE IF c = BACKSLASH
         THEN IF At(t, i + 1) \in {QUOTE, BACKSLASH, "u00e9"}
              THEN ParseChars(t, i + 2, Append(acc, UnescapeAtom(At(t, i + 1))))
              ELSE ParseError
    ELSE ParseChars(t, i + 1, Append(acc, c))

\* the rest of a string literal from i, acc being what was read of it
ParseChars(t, i, acc) == ParseChar(t, i, acc, At(t, i))

ParseString(t, i) ==
    IF At(t, i) = QUOTE THEN ParseChars(t, i + 1, <<>>) ELSE ParseError

RECURSIVE ParsePairs(_, _, _)

\* after a member of an object: a comma and more members, or the brace
PairEnd(t, j, acc) ==
    IF At(t, j) = "," THEN ParsePairs(t, j + 1, acc)
    ELSE IF At(t, j) = "}" THEN [ok |-> TRUE, value |-> acc, next |-> j + 1]
    ELSE ParseError

\* the value v of the member with the given key
PairValue(t, acc, key, v) ==
    IF ~v.ok THEN ParseError
    ELSE PairEnd(t, SkipWs(t, v.next), Append(acc, <<key, v.value>>))

\* the colon after a key, at j
PairColon(t, j, acc, key) ==
    IF At(t, j) # ":" THEN ParseError
    ELSE PairValue(t, acc, key, ParseString(t, SkipWs(t, j + 1)))

\* the key k of a member
PairKey(t, acc, k) ==
    IF ~k.ok THEN ParseError ELSE PairColon(t, SkipWs(t, k.next), acc, k.value)

\* the members of an object from i, acc being the members read
ParsePairs(t, i, acc) == PairKey(t, acc, ParseString(t, SkipWs(t, i)))

\* what follows the opening brace, at j
DictBody(t, j) ==
    IF At(t, j) = "}" THEN [ok |-> TRUE, value |-> <<>>, next |-> j + 1]
    ELSE ParsePairs(t, j, <<>>)

ParseDict(t, i) ==
    IF At(t, i) # "{" THEN ParseError ELSE DictBody(t, SkipWs(t, i + 1))

RECURSIVE ParseItems(_, _, _)

\* after an element of the list: a comma and more elements, or the bracket
ItemEnd(t, j, acc) ==
    IF At(t, j) = "," THEN ParseItems(t, j + 1, acc)
    ELSE IF At(t, j) = "]" THEN [ok |-> TRUE, value |-> acc, next |-> j + 1]
    ELSE ParseError

\* the element d of the list
Item(t, acc, d) ==
    IF ~d.ok THEN ParseError
    ELSE ItemEnd(t, SkipWs(t, d.next), Append(acc, d.value))

\* the elements of the list from i, acc being the elements read
ParseItems(t, i, acc) == Item(t, acc, ParseDict(t, SkipWs(t, i)))

\* what follows the opening bracket, at j
ListBody(t, j) ==
    IF At(t, j) = "]" THEN [ok |-> TRUE, value |-> <<>>, next |-> j + 1]
    ELSE ParseItems(t, j, <<>>)

ParseList(t, i) ==
    IF At(t, i) # "[" THEN ParseError ELSE ListBody(t, SkipWs(t, i + 1))

\* the document is the list r and nothing after it but whitespace
Document(t, r) ==
    IF r.ok /\ SkipWs(t, r.next) = Len(t) + 1 THEN r ELSE ParseError

json_load(t) == Document(t, ParseList(t, SkipWs(t, 1)))

\* ------------------------------------------------------------------------
\* Inputs
\* ------------------------------------------------------------------------

\* what st.chat_input may hand to a run that a submission started: an empty
\* text, or a text with every character JSON has to escape
Prompts == {<<>>, <<"say ", QUOTE, BACKSLASH, EACUTE>>}

\* the labels the user picks in the selectbox: the first two of its options
Choices == {"Gemini 1.5 Pro", "Gemini 1.5 Flash"}

\* the positions of the temperature slider
Temperatures == 0..max_temperature

\* what the external generation service may do with one request: answer
\* with a text (response.text, whatever it is) or fail with a message
ServiceOutcomes ==
    {[kind |-> "text", text |-> <<"hello ", QUOTE, "x", QUOTE>>],
     [kind |-> "text", text |-> <<>>],
     [kind |-> "error", text |-> <<"API key not valid">>]}

\* what opening conversations.json for reading may do
ReadOutcomes == {"ok", "EACCES"}

\* how far a rewrite that runs out of space may have got
CutPoints(n) == {0, n \div 2}

\* what rewriting conversations.json may do: succeed, fail to open the
\* file, or fail after open(..., 'w') has truncated it
WriteOutcomes(n) ==
    {[kind |-> "ok", written |-> n], [kind |-> "EACCES", written |-> 0]}
    \cup {[kind |-> "ENOSPC", written |-> k] : k \in CutPoints(n)}

\* ------------------------------------------------------------------------
\* logging
\* ------------------------------------------------------------------------

\* chat_logs.log is modelled by the messages handed to logging.info and
\* logging.error, in order; the asctime the handler puts before each is
\* left out.

\* ------------------------------------------------------------------------
\* get_gemini_response(question, model_name, temperature)
\* raised tells whether an exception leaves the function; logged are the
\* messages it hands to logging.error
\* ------------------------------------------------------------------------

ErrorMsg(model_name, e) == <<"An error occurred with ", model_name, ": ">> \o e

\* without the except clause: a failure of the service leaves the function
get_gemini_response_raising(question, model_name, temperature, svc) ==
    IF svc.kind = "text"
    THEN [raised |-> FALSE, value |-> svc.text, logged |-> <<>>]
    ELSE [raised |-> TRUE, value |-> <<>>, logged |-> <<>>]

get_gemini_response(question, model_name, temperature, svc) ==
    IF svc.kind = "text"
    THEN [raised |-> FALSE, value |-> svc.text, logged |-> <<>>]
    ELSE [raised |-> FALSE, value |-> ErrorMsg(model_name, svc.text),
          logged |-> <<ErrorMsg(model_name, svc.text)>>]

\* ------------------------------------------------------------------------
\* save_conversation(question, response, model_name)
\* ------------------------------------------------------------------------

\* the question and the response under each other's key
NewConversation_swapped(question, response, model_name, now) ==
    << <<<<"timestamp">>, strftime(now)>>,
       <<<<"model">>, model_name>>,
       <<<<"question">>, response>>,
       <<<<"response">>, question>> >>

NewConversation(question, response, model_name, now) ==
    << <<<<"timestamp">>, strftime(now)>>,
       <<<<"model">>, model_name>>,
       <<<<"question">>, question>>,
       <<<<"response">>, response>> >>

\* line 72: what json.load returned, or its exception
Loaded(r) ==
    IF ~r.ok THEN [ok |-> FALSE, value |-> <<>>, error |-> <<"Expecting value">>]
    ELSE [ok |-> TRUE, value |-> r.value, error |-> <<>>]

\* the stored conversations never read: every call starts from an empty list
LoadExisting_fresh(f, io) == [ok |-> TRUE, value |-> <<>>, error |-> <<>>]

\* lines 70-74: the conversations already stored, or the exception
LoadExisting(f, io) ==
    IF ~f.exists THEN [ok |-> TRUE, value |-> <<>>, error |-> <<>>]
    ELSE IF io # "ok"
         THEN [ok |-> FALSE, value |-> <<>>, error |-> <<"Permission denied">>]
    ELSE Loaded(json_load(f.text))

\* the rewrite as an atomic append: the last conversation of text added to
\* what the file holds at the time of the write
RewriteStore_append(f, text, io) ==
    IF io.kind = "ok"
    THEN [ok |-> TRUE,
          file |-> [exists |-> TRUE,
                    text |-> json_dump(Append(
                        IF f.exists THEN Loaded(json_load(f.text)).value ELSE <<>>,
                        Last(json_load(text).value)))],
          error |-> <<>>]
    ELSE [ok |-> FALSE, file |-> f, error |-> <<"Permission denied">>]

\* lines 80-81: the file after the rewrite with text, the output of
\* json.dump, or the exception
RewriteStore(f, text, io) ==
    IF io.kind = "ok"
    THEN [ok |-> TRUE, file |-> [exists |-> TRUE, text |-> text], error |-> <<>>]
    ELSE IF io.kind = "EACCES"
         THEN [ok |-> FALSE, file |-> f, error |-> <<"Permission denied">>]
    ELSE [ok |-> FALSE,
          file |-> [exists |-> TRUE, text |-> SubSeq(text, 1, io.written)],
          error |-> <<"No space left on device">>]

\* the response line left out
SavedLines_two(question, response, model_name) ==
    << <<"Model: ">> \o model_name, <<"Q: ">> \o question >>

\* lines 84-86
SavedLines(question, response, model_name) ==
    << <<"Model: ">> \o model_name, <<"Q: ">> \o question, <<"R: ">> \o response >>

\* line 89
SaveError(e) == <<"Error saving conversation: ">> \o e

\* the exception logged and raised again
ExceptSave_reraise(e) == [raised |-> TRUE, logged |-> <<SaveError(e)>>]

\* lines 88-89, except Exception as e: the exception is logged and goes no
\* further
ExceptSave(e) == [raised |-> FALSE, logged |-> <<SaveError(e)>>]

\* ------------------------------------------------------------------------
\* The statistics of the sidebar
\* ------------------------------------------------------------------------

\* conv.get(key, default)
DictGet(conv, key, default) ==
    LET hits == {i \in 1..Len(conv) : conv[i][1] = key} IN
    IF hits = {} THEN default
    ELSE conv[CHOOSE i \in hits : \A j \in hits : j <= i][2]

\* model_counts[model_name] = 1: the count so far forgotten
CountOne_overwrite(model_counts, model_name) ==
    IF model_name \in DOMAIN model_counts
    THEN [model_counts EXCEPT ![model_name] = 1]
    ELSE model_counts @@ (model_name :> 1)

\* model_counts[model_name] = model_counts.get(model_name, 0) + 1
CountOne(model_counts, model_name) ==
    IF model_name \in DOMAIN model_counts
    THEN [model_counts EXCEPT ![model_name] = @ + 1]
    ELSE model_counts @@ (model_name :> 1)

RECURSIVE CountModels(_, _)
CountModels(conversations, model_counts) ==
    IF conversations = <<>> THEN model_counts
    ELSE CountModels(Tail(conversations),
             CountOne(model_counts,
                      DictGet(Head(conversations), <<"model">>, <<"Unknown">>)))

\* an empty dict
EmptyCounts == [m \in {} |-> 0]

NoStatistics ==
    [raised |-> FALSE, shown |-> FALSE, conversation_count |-> 0,
     model_counts |-> EmptyCounts]

\* lines 139-148; raised: the exception leaves the script
\* lines 141-148 on what json.load returned, or its exception
Counted(r) ==
    IF ~r.ok THEN [NoStatistics EXCEPT !.raised = TRUE]
    ELSE [raised |-> FALSE, shown |-> TRUE,
          conversation_count |-> Len(r.value),
          model_counts |-> CountModels(r.value, EmptyCounts)]

Statistics(f, io) ==
    IF ~f.exists THEN NoStatistics
    ELSE IF io # "ok" THEN [NoStatistics EXCEPT !.raised = TRUE]
    ELSE Counted(json_load(f.text))

\* ------------------------------------------------------------------------
\* State
\* ------------------------------------------------------------------------

\* the browser sessions running the script against the one store
Sessions == {1, 2}

\* The script is run anew, in a fresh namespace, on every interaction: its
\* globals (selected_model, prompt, response, ...) live for one run and are
\* None between runs.  What lasts is the store, the log and each session's
\* st.session_state.messages.
VARIABLES
    file,            \* conversations.json: [exists, text]
    log,             \* chat_logs.log: the messages logged since the start
    clock,           \* the second the last conversation was stamped with
    n_initial,       \* the number of conversations the store started with
    pc,              \* where each session's script run stands
    messages,        \* st.session_state.messages of each session
    selected_model,  \* the label the selectbox returned to this run
    prompt,          \* what st.chat_input returned to this run
    response,        \* the response of the chat handler
    conversation,    \* save_conversation's local conversation
    conversations,   \* save_conversation's local conversations
    statistics       \* what the sidebar computed in this run

vars == <<file, log, clock, n_initial, pc, messages, selected_model, prompt,
          response, conversation, conversations, statistics>>

\* a conversation as an earlier version of the script left it: no model
LegacyConversation ==
    << <<<<"timestamp">>, strftime(0)>>,
       <<<<"question">>, <<"old">>>>,
       <<<<"response">>, <<"older">>>> >>

\* the stores a session may start on: no file, or a file the script wrote
InitialStores == {<<>>, <<LegacyConversation>>}

\* the store as a session finds it
InitStore ==
    \E exists \in BOOLEAN, l \in InitialStores :
       /\ exists \/ l = <<>>
       /\ file = [exists |-> exists, text |-> IF exists THEN json_dump(l) ELSE <<>>]
       /\ n_initial = Len(l)

Init ==
    /\ InitStore
    /\ log = <<>>
    /\ clock = 0
    /\ pc = [s \in Sessions |-> "idle"]
    /\ messages = [s \in Sessions |-> <<>>]
    /\ selected_model = [s \in Sessions |-> None]
    /\ prompt = [s \in Sessions |-> None]
    /\ response = [s \in Sessions |-> None]
    /\ conversation = [s \in Sessions |-> <<>>]
    /\ conversations = [s \in Sessions |-> <<>>]
    /\ statistics = [s \in Sessions |-> NoStatistics]

\* ------------------------------------------------------------------------
\* The script, step by step
\* ------------------------------------------------------------------------

\* the end of a run: the namespace of the script is dropped
EndRun(s, how) ==
    /\ pc' = [pc EXCEPT ![s] = how]
    /\ selected_model' = [selected_model EXCEPT ![s] = None]
    /\ prompt' = [prompt EXCEPT ![s] = None]
    /\ response' = [response EXCEPT ![s] = None]
    /\ conversation' = [conversation EXCEPT ![s] = <<>>]
    /\ conversations' = [conversations EXCEPT ![s] = <<>>]
    /\ statistics' = [statistics EXCEPT ![s] = NoStatistics]

\* lines 106-170 without a prompt: the page is loaded, or the user moves
\* the selectbox or the slider (both are drawn before anything can fail).
\* The whole run is one step, for it changes nothing that lasts: it draws
\* the sidebar, statistics included, and the transcript, and ends at the
\* chat input, or ends in the exception of the statistics before that.
WidgetRerun(s) ==
    /\ pc[s] \in {"idle", "aborted"}
    /\ \E io \in ReadOutcomes :
          EndRun(s, IF Statistics(file, io).raised THEN "aborted" ELSE "idle")
    /\ UNCHANGED <<file, log, clock, n_initial, messages>>

\* line 170: the user submits the chat input, which the last run must have
\* got as far as drawing: the script runs with the prompt
SubmitPrompt(s) ==
    /\ pc[s] = "idle"
    /\ Len(messages[s]) < 2 * MaxCycles
    /\ \E label \in Choices, p \in Prompts :
          /\ selected_model' = [selected_model EXCEPT ![s] = label]
          /\ prompt' = [prompt EXCEPT ![s] = p]
    /\ pc' = [pc EXCEPT ![s] = "sidebar"]
    /\ UNCHANGED <<file, log, clock, n_initial, messages, response,
                   conversation, conversations, statistics>>

\* lines 139-156: the statistics of the sidebar; an exception ends the run
\* before the chat input is drawn
SidebarStatistics(s) ==
    /\ pc[s] = "sidebar"
    /\ \E io \in ReadOutcomes :
          LET r == Statistics(file, io) IN
          IF r.raised
          THEN EndRun(s, "aborted")
          ELSE /\ statistics' = [statistics EXCEPT ![s] = r]
               /\ pc' = [pc EXCEPT ![s] = "chat_input"]
               /\ UNCHANGED <<selected_model, prompt, response, conversation,
                              conversations>>
    /\ UNCHANGED <<file, log, clock, n_initial, messages>>

\* lines 170-179: without a prompt the run ends; with one, the user message
\* joins the transcript
ChatInput(s) ==
    /\ pc[s] = "chat_input"
    /\ IF prompt[s] # None /\ prompt[s] # <<>>
       THEN /\ messages' = [messages EXCEPT ![s] =
                   Append(@, [role |-> "user", content |-> prompt[s]])]
            /\ pc' = [pc EXCEPT ![s] = "generate"]
            /\ UNCHANGED <<selected_model, prompt, response, conversation,
                           conversations, statistics>>
       ELSE /\ EndRun(s, "idle")
            /\ UNCHANGED messages
    /\ UNCHANGED <<file, log, clock, n_initial>>

\* lines 183-184: the one call of the gateway, with the position the slider
\* returned to this run (lines 122-128)
GetResponse(s) ==
    /\ pc[s] = "generate"
    /\ \E svc \in ServiceOutcomes, temperature \in Temperatures :
          LET r == get_gemini_response(prompt[s],
                       MODELS[selected_model[s]].model_name, temperature, svc)
          IN  /\ temperature <= MODELS[selected_model[s]].max_temperature
              /\ log' = log \o r.logged
              /\ IF r.raised
                 THEN EndRun(s, "aborted")
                 ELSE /\ response' = [response EXCEPT ![s] = r.value]
                      /\ pc' = [pc EXCEPT ![s] = "assistant"]
                      /\ UNCHANGED <<selected_model, prompt, conversation,
                                     conversations, statistics>>
    /\ UNCHANGED <<file, clock, n_initial, messages>>

\* the assistant message tagged with the backend identifier, not the label
AppendAssistant_backend(s) ==
    /\ pc[s] = "assistant"
    /\ messages' = [messages EXCEPT ![s] =
          Append(@, [role |-> "assistant", content |-> response[s],
                     model |-> MODELS[selected_model[s]].model_name])]
    /\ pc' = [pc EXCEPT ![s] = "save_read"]
    /\ UNCHANGED <<file, log, clock, n_initial, selected_model, prompt, response,
                   conversation, conversations, statistics>>

\* lines 189-193: the assistant message joins the transcript
AppendAssistant(s) ==
    /\ pc[s] = "assistant"
    /\ messages' = [messages EXCEPT ![s] =
          Append(@, [role |-> "assistant", content |-> response[s],
                     model |-> selected_model[s]])]
    /\ pc' = [pc EXCEPT ![s] = "save_read"]
    /\ UNCHANGED <<file, log, clock, n_initial, selected_model, prompt, response,
                   conversation, conversations, statistics>>

\* lines 61-77 of save_conversation(prompt, response, selected_model): the
\* new conversation, stamped with the second of the last stamp or a later
\* one, the stored ones read, the new one appended to them; line 89 when
\* that fails, which ends the call and the run, the stamp unused
SaveRead(s) ==
    /\ pc[s] = "save_read"
    /\ \E io \in ReadOutcomes, now \in {clock, clock + 1} :
          LET c == NewConversation(prompt[s], response[s], <<selected_model[s]>>, now)
              r == LoadExisting(file, io)
          IN  IF r.ok
              THEN /\ clock' = now
                   /\ conversation' = [conversation EXCEPT ![s] = c]
                   /\ conversations' = [conversations EXCEPT ![s] = Append(r.value, c)]
                   /\ pc' = [pc EXCEPT ![s] = "save_write"]
                   /\ UNCHANGED <<log, selected_model, prompt, response, statistics>>
              ELSE LET h == ExceptSave(r.error) IN
                   /\ log' = log \o h.logged
                   /\ EndRun(s, IF h.raised THEN "aborted" ELSE "idle")
                   /\ UNCHANGED clock
    /\ UNCHANGED <<file, n_initial, messages>>

\* lines 80-89 of save_conversation: the store rewritten and the three
\* lines logged, or the exception logged; the call and the run end
SaveWrite(s) ==
    /\ pc[s] = "save_write"
    /\ LET text == json_dump(conversations[s]) IN
       \E io \in WriteOutcomes(Len(text)) :
          LET w == RewriteStore(file, text, io)
              h == ExceptSave(w.error)
          IN  /\ file' = w.file
              /\ IF w.ok
                 THEN /\ log' = log \o SavedLines(prompt[s], response[s],
                                                  <<selected_model[s]>>)
                      /\ EndRun(s, "idle")
                 ELSE /\ log' = log \o h.logged
                      /\ EndRun(s, IF h.raised THEN "aborted" ELSE "idle")
    /\ UNCHANGED <<clock, n_initial, messages>>

\* one step of one session's script
Run(s) ==
    \/ WidgetRerun(s)
    \/ SubmitPrompt(s)
    \/ SidebarStatistics(s)
    \/ ChatInput(s)
    \/ GetResponse(s)
    \/ AppendAssistant(s)
    \/ SaveRead(s)
    \/ SaveWrite(s)

\* one session on the store
Next == Run(1)

Spec == Init /\ [][Next]_vars

\* ------------------------------------------------------------------------
\* The gateway alone: a run that has taken a prompt, with any label of the
\* selectbox, about to call get_gemini_response
\* ------------------------------------------------------------------------

GatewayPrompts == {<<"hi">>, <<"test">>, <<"say ", QUOTE, BACKSLASH, EACUTE>>}

InitGateway ==
    /\ InitStore
    /\ log = <<>>
    /\ clock = 0
    /\ \E label \in DOMAIN MODELS, p \in GatewayPrompts :
          /\ pc = [s \in Sessions |-> IF s = 1 THEN "generate" ELSE "idle"]
          /\ selected_model = [s \in Sessions |-> IF s = 1 THEN label ELSE None]
          /\ prompt = [s \in Sessions |-> IF s = 1 THEN p ELSE None]
          /\ messages = [s \in Sessions |->
                IF s = 1 THEN <<[role |-> "user", content |-> p]>> ELSE <<>>]
    /\ response = [s \in Sessions |-> None]
    /\ conversation = [s \in Sessions |-> <<>>]
    /\ conversations = [s \in Sessions |-> <<>>]
    /\ statistics = [s \in Sessions |->
          IF s = 1 THEN Statistics(file, "ok") ELSE NoStatistics]

NextGateway == GetResponse(1)

SpecGateway == InitGateway /\ [][NextGateway]_vars

\* ------------------------------------------------------------------------
\* Two sessions on the one store, each about to call save_conversation at
\* the end of its first cycle, neither having written yet
\* ------------------------------------------------------------------------

\* what get_gemini_response may have returned to a session
Responses(label) ==
    {get_gemini_response(<<"hi">>, MODELS[label].model_name, default_temperature, svc)
        : svc \in ServiceOutcomes}

InitConc ==
    /\ InitStore
    /\ clock = 0
    /\ \E label \in [Sessions -> Choices] :
       \E r \in [Sessions -> UNION {Responses(l) : l \in Choices}] :
          /\ \A s \in Sessions : r[s] \in Responses(label[s])
          /\ pc = [s \in Sessions |-> "save_read"]
          /\ selected_model = label
          /\ prompt = [s \in Sessions |-> <<"hi">>]
          /\ response = [s \in Sessions |-> r[s].value]
          /\ log = r[1].logged \o r[2].logged
          /\ messages = [s \in Sessions |->
                <<[role |-> "user", content |-> <<"hi">>],
                  [role |-> "assistant", content |-> r[s].value, model |-> label[s]]>>]
    /\ conversation = [s \in Sessions |-> <<>>]
    /\ conversations = [s \in Sessions |-> <<>>]
    /\ statistics = [s \in Sessions |-> Statistics(file, "ok")]

NextConc == \E s \in Sessions : SaveRead(s) \/ SaveWrite(s)

SpecConc == InitConc /\ [][NextConc]_vars

\* ------------------------------------------------------------------------
\* What the properties speak of
\* ------------------------------------------------------------------------

\* the Turns a reload of the store yields; none when it cannot be loaded
Turns(f) == IF f.exists THEN Loaded(json_load(f.text)).value ELSE <<>>

\* the store can be loaded: there is no file, or json.load accepts it
Loadable(f) == ~f.exists \/ json_load(f.text).ok

\* the log lines that start with the given atom
LinesWith(atom) == {i \in 1..Len(log) : log[i] # <<>> /\ log[i][1] = atom}

\* the calls of save_conversation that rewrote the store
Successes == Cardinality(LinesWith("Model: "))

\* the calls of save_conversation that ended in the except clause
SaveErrors == Cardinality(LinesWith("Error saving conversation: "))

\* a stored conversation without its timestamp
TurnRecord(conv) ==
    [model |-> DictGet(conv, <<"model">>, <<"Unknown">>),
     question |-> DictGet(conv, <<"question">>, <<>>),
     response |-> DictGet(conv, <<"response">>, <<>>)]

\* of the Turns t of the store, those appended since the session began
Appended(t) ==
    [i \in 1..(IF Len(t) > n_initial THEN Len(t) - n_initial ELSE 0) |->
        TurnRecord(t[n_initial + i])]

SessionTurns == Appended(Turns(file))

\* the completed cycles of a transcript: its user/assistant pairs
Cycles(msgs) ==
    [i \in 1..(Len(msgs) \div 2) |->
        [model |-> <<msgs[2 * i].model>>,
         question |-> msgs[2 * i - 1].content,
         response |-> msgs[2 * i].content]]

RECURSIVE IsSubsequence(_, _)
IsSubsequence(a, b) ==
    IF a = <<>> THEN TRUE
    ELSE IF b = <<>> THEN FALSE
    ELSE IF Head(a) = Head(b) THEN IsSubsequence(Tail(a), Tail(b))
    ELSE IsSubsequence(a, Tail(b))

RECURSIVE SumCounts(_)
SumCounts(counts) ==
    IF DOMAIN counts = {} THEN 0
    ELSE LET m == CHOOSE k \in DOMAIN counts : TRUE IN
         counts[m] + SumCounts([k \in DOMAIN counts \ {m} |-> counts[k]])

\* session s is inside save_conversation
Saving(s) == pc[s] \in {"save_read", "save_write"}

\* this step ends session s's call of save_conversation
SaveEnds(s) == Saving(s) /\ pc'[s] \notin {"save_read", "save_write"}

\* this step is session s's rewrite of the store, and it succeeded
SaveSucceeds(s) ==
    /\ pc[s] = "save_write"
    /\ pc'[s] # "save_write"
    /\ file' = [exists |-> TRUE, text |-> json_dump(conversations[s])]
    /\ Len(log') = Len(log) + 3

\* lines 84-86 for the cycle session s is in
ThreeLines(s) ==
    << <<"Model: ", selected_model[s]>>,
       <<"Q: ">> \o prompt[s],
       <<"R: ">> \o response[s] >>

\* ------------------------------------------------------------------------
\* Properties
\* ------------------------------------------------------------------------

\* st, the statistics of the store as it is, count the Turns the store
\* started with plus the calls of save_conversation that succeeded
InitialPlusAppends(st) ==
    ~st.raised => st.conversation_count = n_initial + Successes

\* C1: with one session on the store, between runs (the store changes only
\* in the step that ends a run), whenever the store can be loaded the total
\* its statistics count is the number of Turns the store started with plus
\* the number of calls of save_conversation that succeeded; one call on an
\* absent or empty store gives 1.
C1_TotalIsInitialPlusAppends ==
    pc[1] = "idle" => InitialPlusAppends(Statistics(file, "ok"))

C1_Witness ==
    /\ n_initial = 1
    /\ Successes = 2
    /\ Statistics(file, "ok").conversation_count = 3

\* C2 as stated: get_gemini_response never raises, and what it returns is a
\* non-empty text or a string "An error occurred with <backend_id>: ...".
C2_NonEmptyTextOrErrorString ==
    /\ pc[1] # "aborted"
    /\ pc[1] = "assistant" =>
          \/ response[1] # <<>> /\ response[1][1] # "An error occurred with "
          \/ /\ Len(response[1]) >= 3
             /\ SubSeq(response[1], 1, 3) =
                   <<"An error occurred with ",
                     MODELS[selected_model[1]].model_name, ": ">>

\* C2 as amended: for every label's backend identifier and every position
\* of the slider, the call of get_gemini_response never raises; it returns
\* either the text of the service as it is, empty or not, with nothing
\* logged, or the string "An error occurred with <backend_id>: <message>",
\* which it also logs.
C2_NeverRaisesTextVerbatimOrErrorString ==
    [][pc[1] = "generate" =>
          /\ pc'[1] = "assistant"
          /\ \/ /\ response'[1] \in {o.text : o \in {x \in ServiceOutcomes : x.kind = "text"}}
                /\ log' = log
             \/ /\ \E o \in {x \in ServiceOutcomes : x.kind = "error"} :
                      response'[1] =
                         <<"An error occurred with ",
                           MODELS[selected_model[1]].model_name, ": ">> \o o.text
                /\ log' = Append(log, response'[1])]_vars

C2_Witness ==
    /\ pc[1] = "assistant"
    /\ selected_model[1] = "LearnLM 1.5 Pro (Experimental)"
    /\ response[1] =
          <<"An error occurred with ", "learnlm-1.5-pro-experimental", ": ",
            "API key not valid">>
    /\ log = <<response[1]>>

\* C3: no step of save_conversation ends the run in an exception: whatever
\* fails while reading or rewriting the store, the call returns, the run
\* ends as after a successful save, and the transcript, which already holds
\* both messages of the turn, is left as it was.
C3_SaveNeverPropagates ==
    [][\A s \in Sessions :
          Saving(s) =>
             /\ pc'[s] \in {"save_write", "idle"}
             /\ messages'[s] = messages[s]
             /\ Len(messages[s]) >= 2
             /\ messages[s][Len(messages[s]) - 1] =
                   [role |-> "user", content |-> prompt[s]]
             /\ Last(messages[s]) =
                   [role |-> "assistant", content |-> response[s],
                    model |-> selected_model[s]]]_vars

C3_Witness ==
    /\ pc[1] = "idle"
    /\ Len(messages[1]) = 4
    /\ Successes = 1
    /\ SaveErrors = 1
    /\ Last(log)[1] = "Error saving conversation: "

\* C4 as stated: no run of the script fails: every run gets as far as the
\* chat input, whatever the state of the store.
C4_EveryRunReachesTheChatInput == \A s \in Sessions : pc[s] # "aborted"

\* turns are, in order, among cycles, and while the store can be loaded
\* they are as many as the cycles less the saves that failed
CyclesWhoseSaveSucceeded(turns, cycles) ==
    /\ IsSubsequence(turns, cycles)
    /\ Len(turns) # Len(cycles) - SaveErrors => ~Loadable(file)

\* C5 as stated: between runs, the Turns the session has put in the store
\* are, one for one and in order, the completed cycles of its transcript.
C5_TurnsBijectCycles ==
    pc[1] = "idle" => SessionTurns = Cycles(messages[1])

\* C5 as amended: between runs, the Turns the session has put in the store
\* are, in order, Turns of distinct completed cycles of its transcript,
\* gateway error strings included; a cycle whose save failed has no Turn,
\* and while the store can be loaded the Turns are as many as the cycles
\* less the saves that failed.
C5_TurnsAreCyclesWhoseSaveSucceeded ==
    pc[1] = "idle" => CyclesWhoseSaveSucceeded(SessionTurns, Cycles(messages[1]))

C5_Witness ==
    /\ pc[1] = "idle"
    /\ Len(messages[1]) = 4
    /\ Len(SessionTurns) = 1
    /\ SessionTurns[1].response # <<>>
    /\ SessionTurns[1].response[1] = "An error occurred with "
    /\ SessionTurns[1] = Cycles(messages[1])[2]

\* C6 as stated: no step removes or changes a stored Turn: the Turns of the
\* store before a step are a prefix of the Turns after it, and a Turn a save
\* has written is read back with the four fields it was written with.
C6_TurnsNeverLost ==
    [][/\ IsPrefix(Turns(file), Turns(file'))
       /\ \A s \in Sessions :
             SaveSucceeds(s) => Last(Turns(file')) = conversation[s]]_vars

\* C7 as stated: every call of save_conversation, however it ends, leaves
\* the three lines (model, question, response) at the end of the log.
C7_ThreeLinesWhateverHappens ==
    [][\A s \in Sessions :
          SaveEnds(s) =>
             /\ Len(log') >= 3
             /\ SubSeq(log', Len(log') - 2, Len(log')) = ThreeLines(s)]_vars

\* C7 as amended: a call of save_conversation writes the three lines
\* (model, question, response) only when reading and rewriting the store
\* both succeeded; a call in which either failed writes one line "Error
\* saving conversation: ..." and none of the three.
C7_ThreeLinesOnlyAfterTheRewrite ==
    [][\A s \in Sessions :
          SaveEnds(s) =>
             IF pc[s] = "save_write"
                /\ file' = [exists |-> TRUE, text |-> json_dump(conversations[s])]
             THEN log' = log \o ThreeLines(s)
             ELSE /\ Len(log') = Len(log) + 1
                  /\ SubSeq(log', 1, Len(log)) = log
                  /\ Last(log')[1] = "Error saving conversation: "]_vars

C7_Witness ==
    /\ pc[1] = "idle"
    /\ Len(messages[1]) = 2
    /\ Successes = 0
    /\ LinesWith("Q: ") = {}
    /\ LinesWith("R: ") = {}
    /\ SaveErrors = 1

\* st, the statistics of the store as it is: the counts sum to the total,
\* and two appended Turns of different labels on a store that started empty
\* count 1 each
SumsAndScenario(st, turns) ==
    /\ SumCounts(st.model_counts) = st.conversation_count
    /\ (~st.raised /\ n_initial = 0 /\ Len(turns) = 2) =>
          (turns[1].model # turns[2].model =>
             /\ st.conversation_count = 2
             /\ st.model_counts = (turns[1].model :> 1) @@ (turns[2].model :> 1))

\* C8: the per-model counts sum to the total, in the statistics a run has
\* computed and in those of the store as it is between runs, whatever it
\* holds, a
\* conversation without a model counted under 'Unknown'; and on a store that
\* started empty and holds two Turns of two different labels, the counts
\* are 1 for each of the two labels.
C8_CountsSumToTotal ==
    /\ \A s \in Sessions :
          SumCounts(statistics[s].model_counts) = statistics[s].conversation_count
    /\ pc[1] = "idle" => SumsAndScenario(Statistics(file, "ok"), SessionTurns)

C8_Witness ==
    /\ pc[1] = "idle"
    /\ n_initial = 0
    /\ Len(messages[1]) = 4
    /\ Statistics(file, "ok") =
          [raised |-> FALSE, shown |-> TRUE, conversation_count |-> 2,
           model_counts |->
              (<<"Gemini 1.5 Pro">> :> 1) @@ (<<"Gemini 1.5 Flash">> :> 1)]

\* C9: a rewrite that succeeds leaves in the store the conversations its
\* session read plus its own, and nothing else: what another session has
\* appended since that read is overwritten, so that the store does not grow.
C9_RewriteKeepsOnlyWhatItRead ==
    [][\A s \in Sessions :
          (pc[s] = "save_write" /\ pc'[s] = "idle" /\ Len(log') = Len(log) + 3) =>
             /\ Turns(file') = conversations[s]
             /\ Len(Turns(file)) >= Len(conversations[s]) =>
                   Len(Turns(file')) <= Len(Turns(file))]_vars

\* both saves went through without an error, and one Turn is missing
C9_Witness ==
    /\ \A s \in Sessions : pc[s] = "idle"
    /\ Successes = 2
    /\ SaveErrors = 0
    /\ Len(Turns(file)) = n_initial + 1

\* C10: a cycle runs only on a non-empty prompt and in the order user
\* message, get_gemini_response, assistant message, save_conversation: the
\* transcript alternates user and assistant, has even length whenever no
\* cycle is under way, and its last two messages are the prompt and the
\* response and label handed to save_conversation.
C10_CycleOrder ==
    \A s \in Sessions :
       LET m == messages[s]
           n == Len(messages[s])
       IN  /\ \A i \in 1..n :
                m[i].role = IF i % 2 = 1 THEN "user" ELSE "assistant"
           /\ pc[s] \in {"idle", "aborted", "sidebar", "chat_input"} => n % 2 = 0
           /\ pc[s] \in {"generate", "assistant", "save_read", "save_write"} =>
                 prompt[s] # None /\ prompt[s] # <<>>
           /\ pc[s] = "generate" => response[s] = None
           /\ pc[s] \in {"generate", "assistant"} =>
                 n % 2 = 1 /\ m[n] = [role |-> "user", content |-> prompt[s]]
           /\ pc[s] \in {"save_read", "save_write"} =>
                 /\ n % 2 = 0
                 /\ m[n - 1] = [role |-> "user", content |-> prompt[s]]
                 /\ m[n] = [role |-> "assistant", content |-> response[s],
                            model |-> selected_model[s]]
           /\ pc[s] = "save_write" =>
                 /\ TurnRecord(conversation[s]) =
                       [model |-> <<m[n].model>>, question |-> m[n - 1].content,
                        response |-> m[n].content]
                 /\ Last(conversations[s]) = conversation[s]

C10_Witness ==
    /\ pc[1] = "idle"
    /\ Len(messages[1]) = 4
    /\ messages[1][2].model # messages[1][4].model
    /\ Successes = 2

====
